---- MODULE Spec2Model ----
(***************************************************************************)
(* State-machine model of review/train.py: the batch caches, the model and *)
(* optimizer construction, checkpoint restore, and the epoch loop of       *)
(* trainIters with train() and evaluate().                                 *)
(*                                                                         *)
(* Floats are modelled exactly as fractions [num, den] where the code      *)
(* divides or raises to a power, and as integers elsewhere (losses,        *)
(* weights, gradients).  Network forward passes (model.py) are inputs:     *)
(* the loss of a batch and the gradients of a backward pass are drawn from *)
(* small sets.                                                             *)
(***************************************************************************)
EXTENDS Integers, Sequences, FiniteSets, TLC

\* ---------------------------------------------------------------- bounds
NTrainPairs == 4
NValidPairs == 20
NTestPairs == 10
MaxRuns == 2
MaxCkptEpoch == 2
LearningRate == 8
LrDecayEpoch == 2
RatioNum == 1
RatioDen == 2

\* ------------------------------------------------------ program constants
eval_batch_size == 10
clip == 5

\* ------------------------------------------------------------ input sets
BatchSizes == {2, 3, 5}
LossVals == {1, 2}
GradVals == {1, 6}

\* ---------------------------------------------------------------- helpers
RECURSIVE Pow(_, _)
Pow(b, k) == IF k = 0 THEN 1 ELSE b * Pow(b, k - 1)

Frac(n, d) == [num |-> n, den |-> d]

\* math.exp on the integer loss scale: strictly increasing, exp(0) = 1
math_exp(l) == Pow(3, l)

RECURSIVE SumSq(_, _)
SumSq(S, g) == IF S = {} THEN 0
               ELSE LET p == CHOOSE q \in S : TRUE
                    IN g[p] * g[p] + SumSq(S \ {p}, g)

\* least n with n * n >= x
CeilSqrt(x) == CHOOSE n \in 0..(x + 1) : n * n >= x /\ (n = 0 \/ (n - 1) * (n - 1) < x)

\* ------------------------------------------------------------------ data
\* loadPrepareData: the three pair lists
train_pairs == [i \in 1..NTrainPairs |-> i]
valid_pairs == [i \in 1..NValidPairs |-> 100 + i]
test_pairs == [i \in 1..NTestPairs |-> 200 + i]

\* batch2TrainData: a batch is identified by the pairs it was built from
batch2TrainData(ps, evaluation) == [pairs |-> ps, evaluation |-> evaluation]

\* faulty variant: the trailing pairs form a last, shorter batch
batchify_with_tail(pairs, bsz, evaluation) ==
    LET nbatch == (Len(pairs) + bsz - 1) \div bsz
        Min(x, y) == IF x < y THEN x ELSE y
    IN [i \in 1..nbatch |->
          batch2TrainData(SubSeq(pairs, (i - 1) * bsz + 1,
                                 Min((i - 1) * bsz + bsz, Len(pairs))), evaluation)]

\* batchify(pairs, bsz, vocab, evaluation)
batchify(pairs, bsz, evaluation) ==
    LET nbatch == Len(pairs) \div bsz
    IN [i \in 1..nbatch |->
          batch2TrainData(SubSeq(pairs, (i - 1) * bsz + 1, (i - 1) * bsz + bsz), evaluation)]

\* ------------------------------------------------------------ the modules
Modules == {"encoder", "birnn_encoder", "review_decoder"}

parameters(m) ==
    CASE m = "encoder" -> {"uemb", "iemb", "remb"}
      [] m = "birnn_encoder" -> {"birnn_sketch_embedding"}
      [] m = "review_decoder" -> {"topic_embedding", "sketch_embedding",
                                  "word_embedding", "aspect_ids"}

AllParams == UNION {parameters(m) : m \in Modules}

\* value of torch.cat((eye, zeros)) and of the pickled aspect vectors
RembTable == 1
AspectTable == 9

\* faulty variant: the freeze flag is stored unnegated
from_pretrained_unfrozen(embeddings, freeze) ==
    [weight |-> embeddings, requires_grad |-> freeze]

\* from_pretrained(embeddings, freeze=True)
from_pretrained(embeddings, freeze) ==
    [weight |-> embeddings, requires_grad |-> ~freeze]

\* lines 198-235: the embedding tables right after construction
InitWeight ==
    [p \in AllParams |->
        CASE p = "remb" -> from_pretrained(RembTable, TRUE).weight
          [] p = "aspect_ids" -> AspectTable
          [] OTHER -> 0]

InitRequiresGrad ==
    [p \in AllParams |->
        CASE p = "remb" -> from_pretrained(RembTable, TRUE).requires_grad
          [] p = "aspect_ids" -> FALSE
          [] OTHER -> TRUE]

\* filter(lambda p: p.requires_grad, m.parameters())
trainable(m, rg) == {p \in parameters(m) : rg[p]}

\* lr = learning_rate * (lr_decay_ratio ** (epoch // lr_decay_epoch))
decayed_lr(e) ==
    Frac(LearningRate * Pow(RatioNum, e \div LrDecayEpoch),
         Pow(RatioDen, e \div LrDecayEpoch))

\* faulty variant: the decay compounds on the optimizer's current rate
adjust_learning_rate_cumulative(optimizer, e) ==
    [optimizer EXCEPT !.lr = Frac(optimizer.lr.num * Pow(RatioNum, e \div LrDecayEpoch),
                                  optimizer.lr.den * Pow(RatioDen, e \div LrDecayEpoch))]

adjust_learning_rate(optimizer, e) ==
    [optimizer EXCEPT !.lr = decayed_lr(e)]

\* optim.Adam(params, lr=learning_rate)
Adam(ps) ==
    [params |-> ps, lr |-> Frac(LearningRate, 1), t |-> 0,
     exp_avg |-> [p \in AllParams |-> 0]]

\* ------------------------------------------------------------------ state
VARIABLES
    batch_size,          \* configured batch size
    loadFilename,        \* {} for None, or {checkpoint} to resume from
    batches_dir,         \* whether <save_dir>/batches exists
    cache,               \* the batch cache files, by <<name, size>>
    saved,               \* checkpoint files written by trainIters, by epoch
    pc, error, run,
    training_batches, val_batches, test_batches,
    weight, requires_grad, grad, opt, mode,
    step, epoch, losses, perplexity, best_val_loss,
    tr_loss, vl_loss, batch_idx, writer

disk == <<batches_dir, cache, saved>>
config == <<batch_size, loadFilename>>
batches == <<training_batches, val_batches, test_batches>>
net == <<weight, requires_grad, grad, opt, mode>>
train_state == <<step, epoch, losses, perplexity, best_val_loss>>
loop == <<tr_loss, vl_loss, batch_idx>>
vars == <<config, disk, pc, error, run, batches, net, train_state, loop, writer>>

\* ------------------------------------------------------------ cache files
CacheNames == {"training_batches", "val_batches", "test_batches"}
CacheKeys == CacheNames \X (BatchSizes \cup {eval_batch_size})

Absent == [kind |-> "absent", data |-> <<>>]
Corrupt == [kind |-> "corrupt", data |-> <<>>]
Valid(d) == [kind |-> "valid", data |-> d]
\* what unpickling a damaged file gives when it does not raise
Garbage == << batch2TrainData(<<0>>, FALSE) >>

NoError == [type |-> "", line |-> 0]
Raise(t, l) == [type |-> t, line |-> l]

\* torch.load(path): the outcomes [err, data]
torch_load(file, line) ==
    CASE file.kind = "valid" -> {[err |-> NoError, data |-> file.data]}
      [] file.kind = "absent" -> {[err |-> Raise("FileNotFoundError", line), data |-> <<>>]}
      [] file.kind = "corrupt" -> {[err |-> Raise("UnpicklingError", line), data |-> <<>>],
                                   [err |-> NoError, data |-> Garbage]}

\* torch.save(obj, path) into <save_dir>/batches: open(path, 'wb') needs the directory
torch_save(c, dir, key, obj, line) ==
    IF dir THEN [err |-> NoError, cache |-> [c EXCEPT ![key] = Valid(obj)]]
    ELSE [err |-> Raise("FileNotFoundError", line), cache |-> c]

\* try: torch.load(...) except FileNotFoundError: batchify(...); torch.save(...)
load_or_build(c, dir, name, bsz, pairs, evaluation, loadLine, saveLine) ==
    LET key == <<name, bsz>>
        built == batchify(pairs, bsz, evaluation)
        written == torch_save(c, dir, key, built, saveLine)
    IN { IF l.err.type = "FileNotFoundError"
         THEN [err |-> written.err, data |-> built, cache |-> written.cache]
         ELSE [err |-> l.err, data |-> l.data, cache |-> c]
         : l \in torch_load(c[key], loadLine) }

\* ------------------------------------------------------------ checkpoints
\* a checkpoint file as line 346 lays it out; 'encoder', 'birnn_encoder' and
\* 'review_decoder' are model[m], the three '*_opt' entries are opt[m]
Checkpoint(e) ==
    [step |-> e + 1,
     epoch |-> e,
     model |-> [m \in Modules |->
                  [p \in parameters(m) |-> IF InitRequiresGrad[p] THEN 7 ELSE InitWeight[p]]],
     opt |-> [m \in Modules |->
                  [lr |-> decayed_lr(e), t |-> e + 1,
                   exp_avg |-> [p \in AllParams |->
                                  IF p \in trainable(m, InitRequiresGrad) THEN 0 - 7 ELSE 0]]],
     loss |-> [i \in 1..(e + 1) |-> 2],
     plt |-> [i \in 1..(e + 1) |-> math_exp(2)]]

Checkpoints == {Checkpoint(e) : e \in 0..MaxCkptEpoch}

\* module.load_state_dict(checkpoint[m]): every entry of the module is copied
load_state_dict(w, sd) ==
    [p \in AllParams |-> IF p \in DOMAIN sd THEN sd[p] ELSE w[p]]

\* optimizer.load_state_dict: state and group options come from the file,
\* the parameters stay the optimizer's own
optimizer_load_state_dict(o, sd) ==
    [params |-> o.params, lr |-> sd.lr, t |-> sd.t, exp_avg |-> sd.exp_avg]

\* lines 237-241, 255-258 and 274-278: what a run restores from a checkpoint,
\* given the freshly built weights and optimizers
restore(built, checkpoint) ==
    [weight |-> load_state_dict(
                  load_state_dict(
                    load_state_dict(built.weight, checkpoint.model["encoder"]),
                    checkpoint.model["birnn_encoder"]),
                  checkpoint.model["review_decoder"]),
     opt |-> [m \in Modules |-> optimizer_load_state_dict(built.opt[m], checkpoint.opt[m])],
     step |-> checkpoint.step,
     epoch |-> checkpoint.epoch + 1,
     perplexity |-> checkpoint.plt,
     losses |-> checkpoint.loss]

\* ------------------------------------------------------------------- Init
Fresh ==
    /\ pc = "load_training" /\ error = NoError
    /\ training_batches = <<>> /\ val_batches = <<>> /\ test_batches = <<>>
    /\ weight = [p \in AllParams |-> 0]
    /\ requires_grad = [p \in AllParams |-> FALSE]
    /\ grad = [p \in {} |-> 0]
    /\ opt = [m \in Modules |-> Adam({})]
    /\ mode = [m \in Modules |-> "train"]
    /\ step = 0 /\ epoch = 0 /\ losses = <<>> /\ perplexity = <<>>
    /\ best_val_loss = {}
    /\ tr_loss = 0 /\ vl_loss = Frac(0, 1) /\ batch_idx = 0
    /\ writer = <<>>

Init ==
    /\ batch_size \in BatchSizes
    /\ loadFilename \in {{}} \cup {{c} : c \in Checkpoints}
    /\ batches_dir \in BOOLEAN
    /\ \E ft, fv, fs \in {"absent", "corrupt", "valid"} :
         cache = [k \in CacheKeys |->
             LET kind == CASE k = <<"training_batches", batch_size>> -> ft
                           [] k = <<"val_batches", eval_batch_size>> -> fv
                           [] k = <<"test_batches", eval_batch_size>> -> fs
                           [] OTHER -> "absent"
                 pairs == CASE k[1] = "training_batches" -> train_pairs
                            [] k[1] = "val_batches" -> valid_pairs
                            [] OTHER -> test_pairs
             IN CASE kind = "absent" \/ ~batches_dir -> Absent
                  [] kind = "corrupt" -> Corrupt
                  [] OTHER -> Valid(batchify(pairs, k[2], k[1] # "training_batches"))]
    /\ saved = {}
    /\ run = 1
    /\ Fresh

\* ------------------------------------------------------ train and evaluate
\* the network as train() and evaluate() see it
Net == [weight |-> weight, requires_grad |-> requires_grad, grad |-> grad,
        opt |-> opt, mode |-> mode]

\* optimizer.zero_grad(): the gradients its parameters hold become zero
zero_grad(g, o) == [p \in DOMAIN g |-> IF p \in o.params THEN 0 ELSE g[p]]

\* loss.backward(): every parameter that requires grad accumulates its gradient;
\* the others keep p.grad = None (they are not in the domain)
backward(g, rg, gin) ==
    [p \in {q \in AllParams : rg[q]} |-> (IF p \in DOMAIN g THEN g[p] ELSE 0) + gin[p]]

\* torch.nn.utils.clip_grad_norm(ps, max_norm): scale the gradients of ps by
\* max_norm / total_norm when that is below 1 (rounded towards zero)
clip_grad_norm(g, ps, max_norm) ==
    LET S == {p \in ps : p \in DOMAIN g}
        total == SumSq(S, g)
        n == CeilSqrt(total)
        scaled(x) == IF x >= 0 THEN (x * max_norm) \div n
                     ELSE 0 - (((0 - x) * max_norm) \div n)
    IN IF total > max_norm * max_norm
       THEN [p \in DOMAIN g |-> IF p \in S THEN scaled(g[p]) ELSE g[p]]
       ELSE g

\* faulty variant: the decoder group is left unclipped
clipped_grads_without_decoder(g, rg) ==
    LET ec == clip_grad_norm(g, trainable("encoder", rg), clip)
    IN clip_grad_norm(ec, trainable("birnn_encoder", rg), clip)

\* lines 82-85: the three groups are clipped one after the other
clipped_grads(g, rg) ==
    LET ec == clip_grad_norm(g, trainable("encoder", rg), clip)
        bc == clip_grad_norm(ec, trainable("birnn_encoder", rg), clip)
    IN clip_grad_norm(bc, trainable("review_decoder", rg), clip)

\* optimizer.step(): Adam moves each of its parameters that has a gradient
\* and updates its own state
optimizer_step(o, g) ==
    [o EXCEPT !.t = o.t + 1,
              !.exp_avg = [p \in AllParams |->
                             IF p \in o.params /\ p \in DOMAIN g
                             THEN o.exp_avg[p] + g[p] ELSE o.exp_avg[p]]]

stepped_weight(w, o, g) ==
    [p \in AllParams |-> IF p \in o.params /\ p \in DOMAIN g THEN w[p] - g[p] ELSE w[p]]

RECURSIVE step_all(_, _, _, _)
step_all(w, os, g, ms) ==
    IF ms = {} THEN w
    ELSE LET m == CHOOSE x \in ms : TRUE
         IN step_all(stepped_weight(w, os[m], g), os, g, ms \ {m})

RECURSIVE zero_all(_, _, _)
zero_all(g, os, ms) ==
    IF ms = {} THEN g
    ELSE LET m == CHOOSE x \in ms : TRUE
         IN zero_all(zero_grad(g, os[m]), os, ms \ {m})

\* train(...): zero_grad, forward and backward (gin), clipping, three steps
train(st, gin) ==
    LET g0 == zero_all(st.grad, st.opt, Modules)
        g1 == backward(g0, st.requires_grad, gin)
        g2 == clipped_grads(g1, st.requires_grad)
    IN [st EXCEPT !.grad = g2,
                  !.weight = step_all(st.weight, st.opt, g2, Modules),
                  !.opt = [m \in Modules |-> optimizer_step(st.opt[m], g2)]]

\* faulty variant: evaluate keeps the backward pass and the optimizer steps of train
evaluate_stepping(st) ==
    [train(st, [p \in AllParams |-> 1]) EXCEPT !.mode = [m \in Modules |-> "eval"]]

\* faulty variant: evaluate leaves the submodules in the mode it finds them in
evaluate_keeping_mode(st) == st

\* evaluate(...): eval mode on the three submodules, forward only
evaluate(st) ==
    [st EXCEPT !.mode = [m \in Modules |-> "eval"]]

SetNet(st) ==
    /\ weight' = st.weight
    /\ requires_grad' = st.requires_grad
    /\ grad' = st.grad
    /\ opt' = st.opt
    /\ mode' = st.mode

\* the gradients one backward pass produces, from the inputs u and v
Gradients(u, v) ==
    [p \in AllParams |-> IF p \in parameters("review_decoder") THEN 0 - v ELSE u]

\* ---------------------------------------------------------------- actions
Crash(e) == pc' = "crashed" /\ error' = e

Continue(e, next) ==
    IF e = NoError THEN pc' = next /\ error' = error ELSE Crash(e)

\* lines 152-159
LoadTraining ==
    /\ pc = "load_training"
    /\ \E o \in load_or_build(cache, batches_dir, "training_batches", batch_size,
                              train_pairs, FALSE, 154, 159) :
         /\ training_batches' = o.data
         /\ cache' = o.cache
         /\ Continue(o.err, "load_val")
    /\ UNCHANGED <<config, batches_dir, saved, run, val_batches, test_batches,
                   net, train_state, loop, writer>>

\* faulty variant: the validation cache uses the configured batch size
LoadValidationConfigured ==
    /\ pc = "load_val"
    /\ \E o \in load_or_build(cache, batches_dir, "val_batches", batch_size,
                              valid_pairs, TRUE, 164, 169) :
         /\ val_batches' = o.data
         /\ cache' = o.cache
         /\ Continue(o.err, "load_test")
    /\ UNCHANGED <<config, batches_dir, saved, run, training_batches, test_batches,
                   net, train_state, loop, writer>>

\* lines 162-169
LoadValidation ==
    /\ pc = "load_val"
    /\ \E o \in load_or_build(cache, batches_dir, "val_batches", eval_batch_size,
                              valid_pairs, TRUE, 164, 169) :
         /\ val_batches' = o.data
         /\ cache' = o.cache
         /\ Continue(o.err, "load_test")
    /\ UNCHANGED <<config, batches_dir, saved, run, training_batches, test_batches,
                   net, train_state, loop, writer>>

\* lines 171-177
LoadTest ==
    /\ pc = "load_test"
    /\ \E o \in load_or_build(cache, batches_dir, "test_batches", eval_batch_size,
                              test_pairs, TRUE, 172, 177) :
         /\ test_batches' = o.data
         /\ cache' = o.cache
         /\ Continue(o.err, "build")
    /\ UNCHANGED <<config, batches_dir, saved, run, training_batches, val_batches,
                   net, train_state, loop, writer>>

\* writer.add_scalar for the restored histories, lines 279-281
RECURSIVE Replay(_, _, _)
Replay(ls, ps, i) ==
    IF i >= Len(ls) THEN <<>>
    ELSE << <<"Train/loss", ls[i + 1], i>>, <<"Train/perplexity", ps[i + 1], i>> >>
         \o Replay(ls, ps, i + 1)

\* lines 179-281: the submodules, the optional restore, the optimizers and
\* the training state
BuildModel ==
    /\ pc = "build"
    /\ LET resume == loadFilename # {}
           checkpoint == CHOOSE c \in loadFilename : TRUE
           rg == InitRequiresGrad
           built == [weight |-> InitWeight,
                     opt |-> [m \in Modules |-> Adam(trainable(m, rg))],
                     step |-> 0, epoch |-> 0, perplexity |-> <<>>, losses |-> <<>>]
           r == IF resume THEN restore(built, checkpoint) ELSE built
       IN /\ weight' = r.weight
          /\ requires_grad' = rg
          /\ opt' = r.opt
          /\ step' = r.step
          /\ epoch' = r.epoch
          /\ perplexity' = r.perplexity
          /\ losses' = r.losses
          /\ writer' = IF resume THEN Replay(r.losses, r.perplexity, 0) ELSE <<>>
    /\ best_val_loss' = {}
    /\ pc' = "epoch_top"
    /\ UNCHANGED <<config, disk, error, run, batches, grad, mode, loop>>

\* lines 285-295
EpochTop ==
    /\ pc = "epoch_top"
    /\ opt' = [m \in Modules |-> adjust_learning_rate(opt[m], epoch)]
    /\ mode' = [m \in Modules |-> "train"]
    /\ tr_loss' = 0
    /\ batch_idx' = 0
    /\ pc' = "train"
    /\ UNCHANGED <<config, disk, error, run, batches, weight, requires_grad, grad,
                   train_state, vl_loss, writer>>

\* lines 296-313: one training batch
TrainBatch ==
    /\ pc = "train"
    /\ batch_idx < Len(training_batches)
    /\ \E loss \in LossVals, u \in GradVals, v \in GradVals :
         /\ SetNet(train(Net, Gradients(u, v)))
         /\ step' = step + 1
         /\ tr_loss' = tr_loss + loss
         /\ losses' = Append(losses, loss)
         /\ perplexity' = Append(perplexity, math_exp(loss))
         /\ writer' = writer \o << <<"Train/loss", loss, step + 1>>,
                                   <<"Train/perplexity", math_exp(loss), step + 1>> >>
    /\ batch_idx' = batch_idx + 1
    /\ UNCHANGED <<config, disk, pc, error, run, batches, epoch, best_val_loss, vl_loss>>

\* lines 315-324: cur_loss = tr_loss / len(training_batches)
TrainDone ==
    /\ pc = "train"
    /\ batch_idx = Len(training_batches)
    /\ IF Len(training_batches) = 0
       THEN Crash(Raise("ZeroDivisionError", 315)) /\ UNCHANGED <<vl_loss, batch_idx>>
       ELSE /\ pc' = "validate"
            /\ error' = error
            /\ vl_loss' = Frac(0, 1)
            /\ batch_idx' = 0
    /\ UNCHANGED <<config, disk, run, batches, net, train_state, tr_loss, writer>>

\* lines 325-331: one validation batch
ValidateBatch ==
    /\ pc = "validate"
    /\ batch_idx < Len(val_batches)
    /\ \E loss \in LossVals :
         /\ SetNet(evaluate(Net))
         /\ vl_loss' = Frac(vl_loss.num + loss, 1)
    /\ batch_idx' = batch_idx + 1
    /\ UNCHANGED <<config, disk, pc, error, run, batches, train_state, tr_loss, writer>>

\* lines 332-338: vl_loss /= len(val_batches)
ValidateDone ==
    /\ pc = "validate"
    /\ batch_idx = Len(val_batches)
    /\ IF Len(val_batches) = 0
       THEN Crash(Raise("ZeroDivisionError", 332)) /\ UNCHANGED <<vl_loss, writer>>
       ELSE /\ pc' = "epoch_end"
            /\ error' = error
            /\ vl_loss' = Frac(vl_loss.num, Len(val_batches))
            /\ writer' = Append(writer,
                                <<"Valid/loss", Frac(vl_loss.num, Len(val_batches)), step>>)
    /\ UNCHANGED <<config, disk, run, batches, net, train_state, tr_loss, batch_idx>>

\* line 341: os.path has no attribute 'joion'; the statement raises
\* AttributeError before the checkpoint condition of line 342 is evaluated
EpochEnd ==
    /\ pc = "epoch_end"
    /\ Crash(Raise("AttributeError", 341))
    /\ UNCHANGED <<config, disk, run, batches, net, train_state, loop, writer>>

\* a later invocation of trainIters on the same disk, with the same or another
\* configured batch size
NewRun ==
    /\ pc = "crashed"
    /\ run < MaxRuns
    /\ run' = run + 1
    /\ pc' = "load_training" /\ error' = NoError
    /\ training_batches' = <<>> /\ val_batches' = <<>> /\ test_batches' = <<>>
    /\ weight' = [p \in AllParams |-> 0]
    /\ requires_grad' = [p \in AllParams |-> FALSE]
    /\ grad' = [p \in {} |-> 0]
    /\ opt' = [m \in Modules |-> Adam({})]
    /\ mode' = [m \in Modules |-> "train"]
    /\ step' = 0 /\ epoch' = 0 /\ losses' = <<>> /\ perplexity' = <<>>
    /\ best_val_loss' = {}
    /\ tr_loss' = 0 /\ vl_loss' = Frac(0, 1) /\ batch_idx' = 0
    /\ writer' = <<>>
    /\ batch_size' \in BatchSizes
    /\ UNCHANGED <<loadFilename, disk>>

Next ==
    \/ LoadTraining \/ LoadValidation \/ LoadTest
    \/ BuildModel \/ EpochTop
    \/ TrainBatch \/ TrainDone
    \/ ValidateBatch \/ ValidateDone
    \/ EpochEnd
    \/ NewRun

Spec == Init /\ [][Next]_vars

\* ----------------------------------------------------------------- claims
Last(q) == q[Len(q)]

FracLess(a, b) == a.num * b.den < b.num * a.den

\* the end of an epoch has been passed: its validation loss is logged and the
\* statements after line 338 have run as far as they go
EpochEnded ==
    /\ writer # <<>>
    /\ Last(writer)[1] = "Valid/loss"
    /\ pc # "epoch_end"

\* the validation losses of the earlier epochs of this run
EarlierValidLosses ==
    {writer[i][2] : i \in {j \in 1..(Len(writer) - 1) : writer[j][1] = "Valid/loss"}}

\* the epoch that just ended improved: no best yet, or strictly below all before
Improved ==
    \A b \in EarlierValidLosses : FracLess(vl_loss, b)

CheckpointWritten(e) == \E c \in saved : c.epoch = e

\* the model and training state have been constructed in this run
Built ==
    \/ pc \in {"epoch_top", "train", "validate", "epoch_end"}
    \/ pc = "crashed" /\ error.line >= 315

\* C1: early stopping: at the end of every improving epoch a checkpoint is
\* persisted, and a run only stops at the end of an epoch whose validation
\* loss exceeds the best, without a checkpoint for that epoch.
C1_EarlyStopping ==
    EpochEnded =>
        IF Improved
        THEN CheckpointWritten(epoch) /\ pc # "crashed"
        ELSE ~CheckpointWritten(epoch)

\* C2: at the end of each epoch a checkpoint is written iff no best loss is
\* recorded yet or the loss is strictly lower than the best, and the best
\* recorded loss is then the minimum validation loss observed so far.
C2_CheckpointIffImproved ==
    EpochEnded =>
        /\ CheckpointWritten(epoch) <=> Improved
        /\ Improved => best_val_loss = {vl_loss}
        /\ \A b \in best_val_loss :
             \A x \in EarlierValidLosses \cup {vl_loss} : ~FracLess(x, b)

\* C3: while the batches of epoch e are trained, every optimizer's learning
\* rate is base_lr * ratio^(e // lr_decay_epoch), and adjusting twice with the
\* same epoch gives what adjusting once gives.
C3_LearningRate ==
    pc = "train" =>
        \A m \in Modules :
            LET k == epoch \div LrDecayEpoch
                once == adjust_learning_rate(opt[m], epoch)
            IN /\ opt[m].lr.num * Pow(RatioDen, k)
                    = LearningRate * Pow(RatioNum, k) * opt[m].lr.den
               /\ adjust_learning_rate(once, epoch) = once
               /\ once.lr = opt[m].lr

\* a resumed run trains in a decayed epoch with a rate that differs from the
\* rate its checkpoint restored
C3_Witness ==
    /\ pc = "train"
    /\ batch_idx >= 1
    /\ epoch \div LrDecayEpoch >= 1
    /\ \E c \in loadFilename : c.opt["encoder"].lr # opt["encoder"].lr

\* C4: the checkpoint saved at the end of epoch E restores, in a new run, to
\* the weights, optimizer states, step and histories of the moment of saving,
\* continuing at epoch E + 1.
C4_RoundTrip ==
    (EpochEnded /\ Improved) =>
        \E c \in saved :
            LET built == [weight |-> InitWeight,
                          opt |-> [m \in Modules |-> Adam(trainable(m, InitRequiresGrad))],
                          step |-> 0, epoch |-> 0, perplexity |-> <<>>, losses |-> <<>>]
                r == restore(built, c)
            IN /\ r.weight = weight
               /\ r.opt = opt
               /\ r.step = step
               /\ r.losses = losses
               /\ r.perplexity = perplexity
               /\ r.epoch = epoch + 1

\* C5: after construction the frozen tables keep their constructed values
\* through every train step, and no optimizer holds a parameter whose
\* requires_grad is false.
C5_FrozenEmbeddings ==
    Built =>
        /\ weight["remb"] = RembTable
        /\ weight["aspect_ids"] = AspectTable
        /\ \A m \in Modules : \A p \in opt[m].params : requires_grad[p]

\* train steps have moved the trainable tables of both modules that hold a
\* frozen one
C5_Witness ==
    /\ Built
    /\ batch_idx >= 2
    /\ pc = "train"
    /\ weight["uemb"] # InitWeight["uemb"]
    /\ weight["word_embedding"] # InitWeight["word_embedding"]

\* the cache file a stage of the cache code reads and writes
StageKey(line) ==
    CASE line \in {154, 159} -> <<"training_batches", batch_size>>
      [] line \in {164, 169} -> <<"val_batches", eval_batch_size>>
      [] line \in {172, 177} -> <<"test_batches", eval_batch_size>>

\* C6: an absent batch cache file is not fatal: the batches are built and the
\* cache file is written.
C6_AbsentCacheNotFatal ==
    (pc = "crashed" /\ error.line \in {154, 159, 164, 169, 172, 177}) =>
        cache[StageKey(error.line)].kind # "absent"

\* C7: a partially written or corrupt cache file is never used as batches and
\* never ends the run: the batches in memory are the ones batchify builds.
C7_CorruptCacheRebuilt ==
    /\ ~(pc = "crashed" /\ error.type = "UnpicklingError")
    /\ training_batches \in {<<>>, batchify(train_pairs, batch_size, FALSE)}
    /\ val_batches \in {<<>>, batchify(valid_pairs, eval_batch_size, TRUE)}
    /\ test_batches \in {<<>>, batchify(test_pairs, eval_batch_size, TRUE)}

\* C8: a call of evaluate leaves the weights, the optimizer states, the step
\* counter and the loss and perplexity histories as they were.
C8_EvaluateFrame ==
    [][(pc = "validate" /\ batch_idx' = batch_idx + 1) =>
          /\ weight' = weight
          /\ opt' = opt
          /\ step' = step
          /\ losses' = losses
          /\ perplexity' = perplexity]_vars

\* evaluate has run on a validation batch after train steps moved the weights
C8_Witness ==
    /\ pc = "validate"
    /\ batch_idx >= 1
    /\ step >= 1
    /\ weight["uemb"] # InitWeight["uemb"]
    /\ \A m \in Modules : mode[m] = "eval"

\* C9: the gradients each optimizer steps with have an L2 norm of at most the
\* clip threshold, over all the parameters that optimizer updates.
C9_ClippedNorm ==
    \A m \in Modules :
        SumSq({p \in opt[m].params : p \in DOMAIN grad}, grad) <= clip * clip

\* a train step whose encoder and decoder gradients were scaled down
C9_Witness ==
    /\ pc = "train"
    /\ batch_idx >= 1
    /\ "uemb" \in DOMAIN grad
    /\ grad["uemb"] \notin GradVals
    /\ (0 - grad["word_embedding"]) \notin GradVals
    /\ grad["uemb"] # 0

\* C10: the test batches are evaluated and a Test/loss event is emitted in
\* exactly the epochs that improve (or have no best yet), after the checkpoint.
C10_TestOnImprovement ==
    EpochEnded =>
        ((\E i \in 1..Len(writer) : writer[i][1] = "Test/loss" /\ writer[i][3] = step)
            <=> Improved)

\* the batches a cache file or a batch list holds all have n pairs
BatchesOfSize(d, n) == \A i \in 1..Len(d) : Len(d[i].pairs) = n

\* C11 (as claimed): each of the three caches is keyed by the configured batch
\* size: a run writes only files <name>_<batch_size>.tar, holding batches of
\* that size.
C11_KeyedByBatchSize ==
    [][\A k \in CacheKeys :
          cache'[k] # cache[k] =>
              k[2] = batch_size /\ BatchesOfSize(cache'[k].data, batch_size)]_vars

\* C11 (amended): the training cache is keyed by and built with the configured
\* batch size; the validation and test caches are keyed by and built with the
\* fixed evaluation batch size, whatever the configured batch size is; the
\* batches a stage keeps are the ones of that file (or a damaged file's load).
C11_CacheKeys ==
    [][/\ \A k \in CacheKeys :
            cache'[k] # cache[k] =>
                LET size == IF k[1] = "training_batches" THEN batch_size
                            ELSE eval_batch_size
                IN /\ k[2] = size
                   /\ cache'[k].kind = "valid"
                   /\ BatchesOfSize(cache'[k].data, size)
       /\ (pc = "load_training" /\ pc' = "load_val") =>
            training_batches' \in {cache'[<<"training_batches", batch_size>>].data, Garbage}
       /\ (pc = "load_val" /\ pc' = "load_test") =>
            val_batches' \in {cache'[<<"val_batches", eval_batch_size>>].data, Garbage}
       /\ (pc = "load_test" /\ pc' = "build") =>
            test_batches' \in {cache'[<<"test_batches", eval_batch_size>>].data, Garbage}]_vars

\* a later run has loaded the validation cache of size 10 on a disk that holds
\* training caches of two different configured batch sizes
C11_Witness ==
    /\ run >= 2
    /\ pc = "load_test"
    /\ batch_size # eval_batch_size
    /\ cache[<<"val_batches", eval_batch_size>>].kind = "valid"
    /\ val_batches = cache[<<"val_batches", eval_batch_size>>].data
    /\ \E a \in BatchSizes, b \in BatchSizes :
         /\ a # b
         /\ cache[<<"training_batches", a>>].kind = "valid"
         /\ cache[<<"training_batches", b>>].kind = "valid"

\* the step and epoch a run starts its loop with (lines 262-263, 275-276)
StartStep == IF loadFilename = {} THEN 0 ELSE (CHOOSE c \in loadFilename : TRUE).step
StartEpoch == IF loadFilename = {} THEN 0 ELSE (CHOOSE c \in loadFilename : TRUE).epoch + 1

\* number of events of a tag the writer holds
Count(tag) == Cardinality({i \in 1..Len(writer) : writer[i][1] = tag})

\* the training batches and the epochs this run has completed
TrainedBatches == Count("Train/loss") - StartStep
CompletedEpochs == IF pc = "epoch_end" THEN Count("Valid/loss") - 1 ELSE Count("Valid/loss")

\* step grows by one per training batch and both histories have its length
StepAndHistories ==
    Built =>
        /\ step = StartStep + TrainedBatches
        /\ Len(losses) = step
        /\ Len(perplexity) = step

\* C12: step grows by exactly one per training batch, the two histories have
\* length step between batches, and epoch grows by exactly one per completed
\* epoch that does not stop training.
C12_Counters ==
    /\ StepAndHistories
    /\ Built => epoch >= StartEpoch
    /\ (EpochEnded /\ Improved) => epoch = StartEpoch + CompletedEpochs

\* C13: every call of train runs with the three submodules in training mode,
\* and every forward pass of evaluate runs with the three in evaluation mode.
C13_ModeDiscipline ==
    [][/\ (pc = "train" /\ step' = step + 1) =>
            \A m \in Modules : mode[m] = "train" /\ mode'[m] = "train"
       /\ (pc = "validate" /\ batch_idx' = batch_idx + 1) =>
            \A m \in Modules : mode'[m] = "eval"]_vars

\* an epoch has trained its batches and evaluated all its validation batches
C13_Witness ==
    /\ pc = "epoch_end"
    /\ step > StartStep
    /\ batch_idx = Len(val_batches)
    /\ \A m \in Modules : mode[m] = "eval"

\* C14: a resumed run starts with no best validation loss, and its first
\* completed epoch writes a checkpoint, sets the best loss to that epoch's
\* loss and does not stop the run.
C14_FirstEpochAfterResume ==
    loadFilename # {} =>
        /\ (Built /\ Count("Valid/loss") = 0) => best_val_loss = {}
        /\ (EpochEnded /\ Count("Valid/loss") = 1) =>
              /\ CheckpointWritten(epoch)
              /\ best_val_loss = {vl_loss}
              /\ pc # "crashed"

\* the writer holds an event of this tag, value and step index
Emitted(tag, value, index) ==
    \E j \in 1..Len(writer) :
        writer[j][1] = tag /\ writer[j][2] = value /\ writer[j][3] = index

\* C15: the events replayed on resume carry the value and the step index of
\* the events emitted when the batch was trained: the i-th batch of the
\* history was logged with step index i (line 301 increments step before
\* lines 308-309 log it).
C15_ReplaySameIndex ==
    (Built /\ loadFilename # {}) =>
        \A i \in 1..StartStep :
            /\ Emitted("Train/loss", losses[i], i)
            /\ Emitted("Train/perplexity", perplexity[i], i)

\* C16: the epoch loop is left only by the early-stopping break: a run that
\* has completed an epoch and is no longer in the loop saw a validation loss
\* strictly above the best recorded one.
C16_ExitOnlyByEarlyStop ==
    (EpochEnded /\ pc \notin {"epoch_top", "train", "validate"}) =>
        \E b \in best_val_loss : FracLess(b, vl_loss)

\* d is what the claim says batchify(pairs, bsz) returns
BatchifyContract(d, pairs, bsz) ==
    LET n == Len(d)
    IN /\ n * bsz <= Len(pairs)
       /\ Len(pairs) < (n + 1) * bsz
       /\ \A i \in 1..n :
            d[i].pairs = [j \in 1..bsz |-> pairs[(i - 1) * bsz + j]]
       /\ \A i \in 1..n : \A k \in 1..n :
            i # k => \A j \in 1..Len(d[i].pairs) : \A l \in 1..Len(d[k].pairs) :
                        d[i].pairs[j] # d[k].pairs[l]
       /\ \A q \in (n * bsz + 1)..Len(pairs) :
            \A i \in 1..n : \A j \in 1..Len(d[i].pairs) : d[i].pairs[j] # pairs[q]
       /\ Len(pairs) < bsz => d = <<>>

\* a cache stage is past and its batches are not those of a damaged file
StageDone(stage, loadLine, held) ==
    /\ pc # stage
    /\ ~(pc = "crashed" /\ error.line = loadLine)
    /\ held # Garbage

\* C17: batchify returns floor(len(pairs) / bsz) batches, batch i holding the
\* bsz consecutive pairs from position i * bsz in order, no pair twice, the
\* trailing len(pairs) mod bsz pairs dropped.
C17_Batchify ==
    /\ StageDone("load_training", 154, training_batches) =>
          BatchifyContract(training_batches, train_pairs, batch_size)
    /\ (pc \notin {"load_training", "load_val"}
            /\ ~(pc = "crashed" /\ error.line \in {154, 159, 164})
            /\ val_batches # Garbage) =>
          BatchifyContract(val_batches, valid_pairs, eval_batch_size)
    /\ (pc \in {"build", "epoch_top", "train", "validate", "epoch_end"}
            /\ test_batches # Garbage) =>
          BatchifyContract(test_batches, test_pairs, eval_batch_size)

\* batchify has built training batches and dropped trailing pairs
C17_Witness ==
    /\ pc = "load_val"
    /\ training_batches # Garbage
    /\ Len(training_batches) >= 1
    /\ Len(training_batches) * batch_size < Len(train_pairs)

====
